---- MODULE Spec2Model ----
(***************************************************************************)
(* Model of the grid path planner: map_objects.py (Obstacle, Map, Node)    *)
(* and a_star.py (Astar).                                                  *)
(*                                                                         *)
(* World quantities (positions, origin, dimensions, drone_dim) are         *)
(* integers.  Node coordinates are pairs <<x, y>>; Map.array[y][x] is the  *)
(* Node with coords (x, y), so indexing the array by [i][j] yields the    *)
(* Node with coords (j, i).  Heuristic values are reals in the source      *)
(* (they contain square roots); the model keeps them as integers in units  *)
(* of 1/Scale.                                                             *)
(*                                                                         *)
(* a_star.py is a draft whose call sites do not match the definitions      *)
(* they name and which ends in the middle of a statement (line 91).  The   *)
(* model follows the data flow of its statements and binds each name to    *)
(* the definition of the repository it names:                              *)
(*   self.pos_to_node(p)            -> pos_to_node(p, self.map)            *)
(*   find_nodes(n)                  -> self.map.get_neighbors(n)           *)
(*   calculate_score(p, c, t, map)  -> self.calculate_score(p, c, t)       *)
(*   child.coords(), parent.heuristic() -> the properties                  *)
(*   node.heuristic = v             -> node.set_heuristic(v)               *)
(*   nodes_found, nodes_checked     -> self.nodes_found, self.nodes_checked*)
(*   list.sort() of Nodes           -> ordered by Node.__sort__            *)
(*   node.parent in None            -> node.parent is None                 *)
(* Exceptions that depend on the values (an index outside a list, an       *)
(* attribute of None) are outcomes of the model.  Numbers are modelled by  *)
(* their values: a float with an integral value indexes a list like the    *)
(* integer, and sums that are equal as reals are equal (the rounding of    *)
(* float additions is not modelled).                                       *)
(***************************************************************************)
EXTENDS Integers, Sequences, FiniteSets, TLC

\* ---------------------------------------------------------------- bounds
\* Grids with obstacles have at most MaxDim x MaxDim cells.
MaxDim == 3
\* Obstacle-free grids have up to FreeDim columns and FreeDim rows.
FreeDim == 5
\* Obstacles handed to the Map constructor.
MaxObstacles == 1
\* drone_dim ranges over 1..MaxDroneDim.
MaxDroneDim == 2
\* Invocations of a_star_search on one Astar object.
MaxCalls == 2
\* Iterations of the path-reconstruction loop that are followed.
MaxPath == 12
\* Heuristic values are kept in units of 1/Scale.
Scale == 1000
\* Positions handed to pos_to_node lie within MaxOff cells of the grid.
MaxOff == 1
\* Two Astar objects share a Map of at most SharedDim x SharedDim cells.
SharedDim == 2
\* Origins have components in 0..MaxOrigin.
MaxOrigin == 2
\* Maps on which create_obstacles is called have at most BuildDim x BuildDim
\* cells, and it is called at most MaxBuilds times after the constructor.
BuildDim == 2
MaxBuilds == 1
\* set_cost and set_heuristic are given values in 0..MaxValue.
MaxValue == 9

\* None of Python
NoNode == <<>>

\* ---------------------------------------------------------------- helpers
\* int(a / b) for b > 0: truncation towards zero
int_div(a, b) == IF a >= 0 THEN a \div b ELSE -((-a) \div b)

Abs(a) == IF a < 0 THEN -a ELSE a

RECURSIVE isqrt_search(_, _, _)
isqrt_search(n, lo, hi) ==
  IF lo >= hi THEN lo
  ELSE LET mid == (lo + hi + 1) \div 2
       IN  IF mid * mid <= n THEN isqrt_search(n, mid, hi)
           ELSE isqrt_search(n, lo, mid - 1)

\* v ** 0.5 in units of 1/Scale
sqrt_scaled(v) ==
  LET whole == isqrt_search(v, 0, v)
  IN  isqrt_search(v * Scale * Scale, whole * Scale, (whole + 1) * Scale)

\* A Python list index i into a list of length n: negative indices count
\* from the end, anything outside -n..n-1 raises IndexError.
index_ok(i, n) == (-n <= i) /\ (i < n)
index_of(i, n) == IF i < 0 THEN i + n ELSE i

\* ---------------------------------------------------------------- Map
\* Map.__init__: the number of columns and rows of Map.array
array_x(m) == int_div(m.dim_x, m.drone_dim)
array_y(m) == int_div(m.dim_y, m.drone_dim)

Cells(m) == (0 .. array_x(m) - 1) \X (0 .. array_y(m) - 1)

\* Node.__init__
Node == [is_obstacle |-> FALSE, parent |-> NoNode, cost |-> 0, heuristic |-> 0]

\* Node.f_cost
f_cost(n) == n.cost + n.heuristic

\* index ranges that leave the origin out
obstacle_range_no_origin(m, o) ==
  [top    |-> int_div(o.top, m.drone_dim),
   bottom |-> int_div(o.bottom, m.drone_dim),
   left   |-> int_div(o.left, m.drone_dim),
   right  |-> int_div(o.right, m.drone_dim)]

\* Map.create_obstacles: the index ranges of one obstacle
obstacle_range(m, o) ==
  [top    |-> int_div(o.top + m.origin[2], m.drone_dim),
   bottom |-> int_div(o.bottom + m.origin[2], m.drone_dim),
   left   |-> int_div(o.left + m.origin[1], m.drone_dim),
   right  |-> int_div(o.right + m.origin[1], m.drone_dim)]

\* the array indices [y][x] that create_obstacles visits for one obstacle
obstacle_visits(m, o) ==
  LET r == obstacle_range(m, o)
  IN  {<<x, y>> \in (r.left .. r.right) \X (r.bottom .. r.top) : TRUE}

\* create_obstacles raises IndexError when an index leaves the lists
create_obstacles_ok(m) ==
  \A k \in 1 .. Len(m.obstacles) :
    \A v \in obstacle_visits(m, m.obstacles[k]) :
      index_ok(v[1], array_x(m)) /\ index_ok(v[2], array_y(m))

\* the cells create_obstacles marks
create_obstacles(m) ==
  {<<index_of(v[1], array_x(m)), index_of(v[2], array_y(m))>> :
     v \in UNION {obstacle_visits(m, m.obstacles[k]) : k \in 1 .. Len(m.obstacles)}}

\* Map.__init__: the array of Nodes after construction
new_array(m) ==
  LET marked == create_obstacles(m)
  IN  [c \in Cells(m) |-> [Node EXCEPT !.is_obstacle = (c \in marked)]]

\* get_neighbors that keeps the obstacles among the neighbours
get_neighbors_unfiltered(m, arr, c) ==
  LET x_pos == c[1]
      y_pos == c[2]
      top    == IF y_pos + 1 >= array_y(m) THEN NoNode ELSE <<x_pos, y_pos + 1>>
      bottom == IF y_pos - 1 < 0 THEN NoNode ELSE <<x_pos, y_pos - 1>>
      left   == IF x_pos - 1 < 0 THEN NoNode ELSE <<x_pos - 1, y_pos>>
      right  == IF x_pos + 1 >= array_x(m) THEN NoNode ELSE <<x_pos + 1, y_pos>>
      neighbors == <<top, bottom, left, right>>
  IN  SelectSeq(neighbors, LAMBDA n : n # NoNode)

\* Map.get_neighbors: top, bottom, left, right, without those outside the
\* array and without obstacles
get_neighbors(m, arr, c) ==
  LET x_pos == c[1]
      y_pos == c[2]
      top    == IF y_pos + 1 >= array_y(m) THEN NoNode ELSE <<x_pos, y_pos + 1>>
      bottom == IF y_pos - 1 < 0 THEN NoNode ELSE <<x_pos, y_pos - 1>>
      left   == IF x_pos - 1 < 0 THEN NoNode ELSE <<x_pos - 1, y_pos>>
      right  == IF x_pos + 1 >= array_x(m) THEN NoNode ELSE <<x_pos + 1, y_pos>>
      neighbors == <<top, bottom, left, right>>
  IN  SelectSeq(neighbors, LAMBDA n : n # NoNode /\ ~arr[n].is_obstacle)

\* Map.sequence_to_path for one index pair s.  The result has halves
\* (.5*drone_dim), so it is given as twice its value.
sequence_to_path2(m, s) ==
  <<2 * (s[1] * m.drone_dim) + m.drone_dim - 2 * m.origin[1],
    2 * (s[2] * m.drone_dim) + m.drone_dim - 2 * m.origin[2]>>

\* ---------------------------------------------------------------- Astar
\* Astar.pos_to_node for the position pos/den (den = 1 for an integer
\* position, 2 for one given as twice its value).  ok is FALSE when the
\* indexing raises IndexError.
pos_to_node_q(pos, den, m) ==
  LET node_x == pos[1] \div (m.drone_dim * den)
      node_y == pos[2] \div (m.drone_dim * den)
  IN  IF index_ok(node_x, array_y(m)) /\ index_ok(node_y, array_x(m))
      THEN [ok |-> TRUE,
            node |-> <<index_of(node_y, array_x(m)), index_of(node_x, array_y(m))>>]
      ELSE [ok |-> FALSE, node |-> NoNode]

pos_to_node(pos, m) == pos_to_node_q(pos, 1, m)

\* Astar.__init__
new_astar(start, target) ==
  [start |-> start, target |-> target,
   nodes_found |-> <<>>, nodes_checked |-> <<>>,
   pc |-> "idle", calls |-> 0, result |-> "none",
   node_to_check |-> NoNode, path |-> <<>>, node |-> NoNode,
   first |-> [result |-> "none", path |-> <<>>]]

\* what a call of a_star_search hands back: the list it returns, or how it ended
returned(o) == [result |-> o.result, path |-> IF o.result = "found" THEN o.path ELSE <<>>]

\* the end of a call: the first call's outcome is remembered
finish(o, res) ==
  LET done == [o EXCEPT !.pc = "done", !.result = res]
  IN  IF o.calls = 1 THEN [done EXCEPT !.first = returned(done)] ELSE done

\* Astar.calculate_score: distance from the child's coords to self.target,
\* plus the parent's heuristic, plus drone_dim
calculate_score(o, m, arr, parent, child) ==
  LET dx == child[1] - o.target[1]
      dy == child[2] - o.target[2]
      dist_to_target == sqrt_scaled(dx * dx + dy * dy)
  IN  dist_to_target + arr[parent].heuristic + m.drone_dim * Scale

\* a sort that leaves the list as it is
sort_none(nodes, arr) == nodes

\* list.sort() with Node.__sort__ as the order: stable, ascending f_cost
RECURSIVE sort_insert(_, _, _)
sort_insert(sorted, n, arr) ==
  IF sorted = <<>> THEN <<n>>
  ELSE LET last == sorted[Len(sorted)]
       IN  IF f_cost(arr[n]) < f_cost(arr[last])
           THEN Append(sort_insert(SubSeq(sorted, 1, Len(sorted) - 1), n, arr), last)
           ELSE Append(sorted, n)

RECURSIVE sort(_, _)
sort(nodes, arr) ==
  IF nodes = <<>> THEN <<>>
  ELSE sort_insert(sort(SubSeq(nodes, 1, Len(nodes) - 1), arr), nodes[Len(nodes)], arr)

in_list(n, nodes) == \E k \in 1 .. Len(nodes) : nodes[k] = n

\* a_star_search, line 56: the start node enters nodes_found
search_begin(o, m, arr) ==
  LET s == pos_to_node(o.start, m)
      c == [o EXCEPT !.calls = o.calls + 1, !.result = "none", !.path = <<>>,
                     !.node = NoNode, !.node_to_check = NoNode]
  IN  IF ~s.ok THEN [o |-> finish(c, "IndexError"), arr |-> arr]
      ELSE [o |-> [c EXCEPT !.nodes_found = Append(o.nodes_found, s.node), !.pc = "loop"],
            arr |-> arr]

\* a_star_search, lines 58-72: the head of the loop
search_loop(o, m, arr) ==
  IF Len(o.nodes_found) = 0 THEN [o |-> finish(o, "exhausted"), arr |-> arr]
  ELSE
    LET sorted == sort(o.nodes_found, arr)
        node_to_check == Head(sorted)
        popped == [o EXCEPT !.nodes_found = Tail(sorted),
                            !.nodes_checked = Append(o.nodes_checked, node_to_check),
                            !.node_to_check = node_to_check]
        t == pos_to_node(o.target, m)
    IN  IF ~t.ok THEN [o |-> finish(popped, "IndexError"), arr |-> arr]
        ELSE IF node_to_check = t.node
        THEN [o |-> [popped EXCEPT !.path = <<node_to_check>>,
                                   !.node = arr[node_to_check].parent,
                                   !.pc = "recon"],
              arr |-> arr]
        ELSE [o |-> [popped EXCEPT !.pc = "expand"], arr |-> arr]

\* a_star_search, lines 73-81: one iteration of the reconstruction loop
search_recon(o, m, arr) ==
  LET path == Append(o.path, o.node)
  IN  IF o.node = NoNode
      THEN [o |-> finish([o EXCEPT !.path = path], "AttributeError"), arr |-> arr]
      ELSE IF arr[o.node].parent = NoNode
      THEN [o |-> finish([o EXCEPT !.path = path], "found"), arr |-> arr]
      ELSE [o |-> [o EXCEPT !.path = path, !.node = arr[o.node].parent], arr |-> arr]

\* a loop body that marks the node it visits as an obstacle
visit_node_marking(o, m, s, node) ==
  [found |-> s.found, arr |-> [s.arr EXCEPT ![node].is_obstacle = TRUE], ok |-> TRUE]

\* a_star_search, lines 85-91: the body of the loop over new_nodes for one
\* node.  s = [found, arr, ok]; ok turns FALSE when the comparison of a
\* parent that is None raises AttributeError (Node.__eq__ reads n.coords).
visit_node(o, m, s, node) ==
  LET arr1 == [s.arr EXCEPT ![node].heuristic =
                 calculate_score(o, m, s.arr, o.node_to_check, node)]
  IN  IF ~in_list(node, s.found) /\ ~in_list(node, o.nodes_checked)
      THEN [found |-> Append(s.found, node),
            arr |-> [arr1 EXCEPT ![node].parent = o.node_to_check],
            ok |-> TRUE]
      ELSE IF in_list(node, s.found) /\ arr1[node].parent = NoNode
      THEN [found |-> s.found, arr |-> arr1, ok |-> FALSE]
      ELSE [found |-> s.found, arr |-> arr1, ok |-> TRUE]

RECURSIVE visit_nodes(_, _, _, _)
visit_nodes(o, m, s, new_nodes) ==
  IF new_nodes = <<>> \/ ~s.ok THEN s
  ELSE visit_nodes(o, m, visit_node(o, m, s, Head(new_nodes)), Tail(new_nodes))

\* a_star_search, lines 83-91: the neighbours of the popped node
search_expand(o, m, arr) ==
  LET new_nodes == get_neighbors(m, arr, o.node_to_check)
      s == visit_nodes(o, m, [found |-> o.nodes_found, arr |-> arr, ok |-> TRUE], new_nodes)
      o1 == [o EXCEPT !.nodes_found = s.found]
  IN  IF s.ok THEN [o |-> [o1 EXCEPT !.pc = "loop"], arr |-> s.arr]
      ELSE [o |-> finish(o1, "AttributeError"), arr |-> s.arr]

\* ---------------------------------------------------------------- state
VARIABLES
  map,      \* the Map's constructor arguments
  array,    \* Map.array: the Node at each coords
  astar,    \* the Astar objects
  probe     \* the last call of a method outside a search and its result

vars == <<map, array, astar, probe>>

NoProbe == [op |-> "none", pos |-> <<0, 0>>, ok |-> TRUE, node |-> NoNode]

\* an Astar object that was not constructed
NoAstar == [new_astar(<<0, 0>>, <<0, 0>>) EXCEPT !.pc = "absent"]

\* rectangles whose index ranges lie inside the array
Obstacles(m) ==
  {o \in [left : 0 .. m.dim_x - 1, right : 0 .. m.dim_x - 1,
          bottom : 0 .. m.dim_y - 1, top : 0 .. m.dim_y - 1] :
     /\ o.left <= o.right /\ o.bottom <= o.top
     /\ o.left % m.drone_dim = 0 /\ o.right % m.drone_dim = 0
     /\ o.bottom % m.drone_dim = 0 /\ o.top % m.drone_dim = 0}

ObstacleLists(m) ==
  UNION {[1 .. k -> Obstacles(m)] : k \in 0 .. MaxObstacles}

\* positions at the corner of each cell of the workspace
Positions(m) ==
  {<<x * m.drone_dim, y * m.drone_dim>> :
     <<x, y>> \in (0 .. array_x(m) - 1) \X (0 .. array_y(m) - 1)}

BareMaps(W, H) ==
  {[origin |-> <<0, 0>>, dim_x |-> w * d, dim_y |-> h * d,
    obstacles |-> <<>>, drone_dim |-> d] :
     <<w, h, d>> \in (1 .. W) \X (1 .. H) \X (1 .. MaxDroneDim)}

Maps ==
  {[b EXCEPT !.obstacles = os] : <<b, os>> \in
     UNION {{b} \X ObstacleLists(b) : b \in BareMaps(MaxDim, MaxDim)}}

InitWith(ms) ==
  /\ map \in ms
  /\ create_obstacles_ok(map)
  /\ array = new_array(map)
  /\ \E start \in Positions(map), target \in Positions(map) :
       astar = [i \in 1 .. 2 |-> IF i = 1 THEN new_astar(start, target) ELSE NoAstar]
  /\ probe = NoProbe

Init == InitWith(Maps)

\* a call of a_star_search on object i
Call(i) ==
  /\ astar[i].pc \in {"idle", "done"}
  /\ astar[i].calls < MaxCalls
  /\ LET r == search_begin(astar[i], map, array)
     IN  astar' = [astar EXCEPT ![i] = r.o] /\ array' = r.arr
  /\ UNCHANGED <<map, probe>>

Loop(i) ==
  /\ astar[i].pc = "loop"
  /\ LET r == search_loop(astar[i], map, array)
     IN  astar' = [astar EXCEPT ![i] = r.o] /\ array' = r.arr
  /\ UNCHANGED <<map, probe>>

Expand(i) ==
  /\ astar[i].pc = "expand"
  /\ LET r == search_expand(astar[i], map, array)
     IN  astar' = [astar EXCEPT ![i] = r.o] /\ array' = r.arr
  /\ UNCHANGED <<map, probe>>

Recon(i) ==
  /\ astar[i].pc = "recon"
  /\ Len(astar[i].path) < MaxPath
  /\ LET r == search_recon(astar[i], map, array)
     IN  astar' = [astar EXCEPT ![i] = r.o] /\ array' = r.arr
  /\ UNCHANGED <<map, probe>>

Next ==
  \E i \in 1 .. 2 : Call(i) \/ Loop(i) \/ Expand(i) \/ Recon(i)

Spec == Init /\ [][Next]_vars

\* ------------------------------------------------ obstacle-free grids
FreeMaps == BareMaps(FreeDim, FreeDim)

InitFree == InitWith(FreeMaps)

SpecFree == InitFree /\ [][Next]_vars

\* ------------------------------------------------ two Astar objects, one Map
InitShared ==
  /\ map \in BareMaps(SharedDim, SharedDim)
  /\ array = new_array(map)
  /\ astar \in [1 .. 2 -> {new_astar(s, t) : <<s, t>> \in Positions(map) \X Positions(map)}]
  /\ probe = NoProbe

\* each object is searched once; the steps of the two searches interleave
NextShared ==
  \E i \in 1 .. 2 : (astar[i].calls = 0 /\ Call(i)) \/ Loop(i) \/ Expand(i) \/ Recon(i)

SpecShared == InitShared /\ [][NextShared]_vars

\* ------------------------------------------------ coordinate conversions
MapperMaps ==
  {[origin |-> <<ox, oy>>, dim_x |-> w * d, dim_y |-> h * d,
    obstacles |-> <<>>, drone_dim |-> d] :
     <<ox, oy, w, h, d>> \in (0 .. MaxOrigin) \X (0 .. MaxOrigin) \X (1 .. MaxDim)
                              \X (1 .. MaxDim) \X (1 .. MaxDroneDim)}

ProbePositions(m) ==
  (-(MaxOff * m.drone_dim) - m.origin[1] .. m.dim_x + MaxOff * m.drone_dim - 1)
    \X (-(MaxOff * m.drone_dim) - m.origin[2] .. m.dim_y + MaxOff * m.drone_dim - 1)

InitMapper ==
  /\ map \in MapperMaps
  /\ array = new_array(map)
  /\ astar = [i \in 1 .. 2 |-> NoAstar]
  /\ probe = NoProbe

\* pos_to_node(pos, map)
WorldToCell(pos) ==
  /\ LET r == pos_to_node(pos, map)
     IN  probe' = [op |-> "pos_to_node", pos |-> pos, ok |-> r.ok, node |-> r.node]
  /\ UNCHANGED <<map, array, astar>>

\* pos_to_node(sequence_to_path([c])[0], map)
RoundTrip(c) ==
  /\ LET r == pos_to_node_q(sequence_to_path2(map, c), 2, map)
     IN  probe' = [op |-> "round_trip", pos |-> c, ok |-> r.ok, node |-> r.node]
  /\ UNCHANGED <<map, array, astar>>

NextMapper ==
  \/ \E pos \in ProbePositions(map) : WorldToCell(pos)
  \/ \E c \in Cells(map) : RoundTrip(c)

SpecMapper == InitMapper /\ [][NextMapper]_vars

\* ------------------------------------------------ obstacles and neighbours
\* Obstacle.__init__: the bounds of the vertices
Obstacle(vertices) ==
  LET xs == {vertices[k][1] : k \in 1 .. Len(vertices)}
      ys == {vertices[k][2] : k \in 1 .. Len(vertices)}
  IN  [top    |-> CHOOSE v \in ys : \A w \in ys : w <= v,
       bottom |-> CHOOSE v \in ys : \A w \in ys : v <= w,
       left   |-> CHOOSE v \in xs : \A w \in xs : v <= w,
       right  |-> CHOOSE v \in xs : \A w \in xs : w <= v]

\* Map.create_obstacles, lines 45-47, for one obstacle: array[y][x] is
\* reached when no earlier index of the two loops raised IndexError
obstacle_reached(m, o, x, y) ==
  LET r == obstacle_range(m, o)
  IN  /\ \A y1 \in r.bottom .. y - 1 :
           index_ok(y1, array_y(m)) /\ \A x1 \in r.left .. r.right : index_ok(x1, array_x(m))
      /\ index_ok(y, array_y(m))
      /\ \A x1 \in r.left .. x : index_ok(x1, array_x(m))

\* the cells one call of create_obstacles([o]) marks before it ends or raises
obstacle_marks(m, o) ==
  {<<index_of(v[1], array_x(m)), index_of(v[2], array_y(m))>> :
     v \in {w \in obstacle_visits(m, o) : obstacle_reached(m, o, w[1], w[2])}}

\* an in-bounds rectangle of Obstacles(m), in world coordinates
world_obstacle(m, o) ==
  [left |-> o.left - m.origin[1], right |-> o.right - m.origin[1],
   bottom |-> o.bottom - m.origin[2], top |-> o.top - m.origin[2]]

BuildMaps(dim) ==
  UNION {{[origin |-> <<ox, oy>>, dim_x |-> b.dim_x, dim_y |-> b.dim_y,
           obstacles |-> [k \in DOMAIN os |-> world_obstacle(b, os[k])],
           drone_dim |-> b.drone_dim] :
            <<ox, oy, os>> \in (0 .. MaxOrigin) \X (0 .. MaxOrigin) \X ObstacleLists(b)} :
         b \in BareMaps(dim, dim)}

\* world coordinates whose cell index is within MaxOff cells of the grid
Vertices(m) ==
  (-(MaxOff * m.drone_dim) - m.origin[1] .. m.dim_x + MaxOff * m.drone_dim - 1 - m.origin[1])
    \X (-(MaxOff * m.drone_dim) - m.origin[2] .. m.dim_y + MaxOff * m.drone_dim - 1 - m.origin[2])

\* two opposite corners of a rectangle, in either order
Corners(m) ==
  LET V == Vertices(m) IN {<<a, b>> : <<a, b>> \in V \X V}

InitBuild ==
  /\ map \in BuildMaps(BuildDim)
  /\ array = new_array(map)
  /\ astar = [i \in 1 .. 2 |-> NoAstar]
  /\ probe = [op |-> "Map", ok |-> TRUE, builds |-> 0]

\* map.create_obstacles([Obstacle(vertices)])
CreateObstacles ==
  /\ probe.ok /\ probe.builds < MaxBuilds
  /\ \E vertices \in Corners(map) :
       LET o == Obstacle(vertices)
           m == [map EXCEPT !.obstacles = <<o>>]
           marks == obstacle_marks(map, o)
       IN  /\ array' = [c \in Cells(map) |->
                          [array[c] EXCEPT !.is_obstacle = array[c].is_obstacle \/ c \in marks]]
           /\ probe' = [op |-> "create_obstacles", ok |-> create_obstacles_ok(m),
                        builds |-> probe.builds + 1, obstacle |-> o]
  /\ UNCHANGED <<map, astar>>

\* map.get_neighbors(map.array[c[2]][c[1]])
GetNeighbors(c) ==
  /\ probe.ok /\ probe.op # "get_neighbors"
  /\ probe' = [op |-> "get_neighbors", ok |-> FALSE, builds |-> probe.builds,
               node |-> c, neighbors |-> get_neighbors(map, array, c)]
  /\ UNCHANGED <<map, array, astar>>

NextBuild ==
  \/ CreateObstacles
  \/ \E c \in Cells(map) : GetNeighbors(c)

SpecBuild == InitBuild /\ [][NextBuild]_vars

\* ------------------------------------------------ one Node
\* Node.__init__: the cost fields of a new Node
Node_init == [_cost |-> 0, _heuristic |-> 0, _f_cost |-> 0 + 0]

\* a set_cost that leaves _f_cost as it was
set_cost_stale(n, val) == [n EXCEPT !._cost = val]

\* Node.set_cost
set_cost(n, val) ==
  LET n1 == [n EXCEPT !._cost = val]
  IN  [n1 EXCEPT !._f_cost = n1._cost + n1._heuristic]

\* Node.set_heuristic
set_heuristic(n, val) ==
  LET n1 == [n EXCEPT !._heuristic = val]
  IN  [n1 EXCEPT !._f_cost = n1._cost + n1._heuristic]

\* the property Node.f_cost: stores the sum and returns it
read_f_cost(n) == [n EXCEPT !._f_cost = n._cost + n._heuristic]

InitNode ==
  /\ map \in BareMaps(1, 1)
  /\ array = new_array(map)
  /\ astar = [i \in 1 .. 2 |-> NoAstar]
  /\ probe = [op |-> "Node", node |-> Node_init, read |-> 0]

SetCost(val) ==
  /\ probe' = [op |-> "set_cost", node |-> set_cost(probe.node, val), read |-> probe.read]
  /\ UNCHANGED <<map, array, astar>>

SetHeuristic(val) ==
  /\ probe' = [op |-> "set_heuristic", node |-> set_heuristic(probe.node, val),
               read |-> probe.read]
  /\ UNCHANGED <<map, array, astar>>

ReadFCost ==
  /\ LET n == read_f_cost(probe.node)
     IN  probe' = [op |-> "f_cost", node |-> n, read |-> n._f_cost]
  /\ UNCHANGED <<map, array, astar>>

NextNode ==
  \/ \E val \in 0 .. MaxValue : SetCost(val)
  \/ \E val \in 0 .. MaxValue : SetHeuristic(val)
  \/ ReadFCost

SpecNode == InitNode /\ [][NextNode]_vars

\* ------------------------------------------------ vocabulary of the claims
Objects == {i \in 1 .. 2 : astar[i].pc # "absent"}

Mapped(o) == pos_to_node(o.start, map).ok /\ pos_to_node(o.target, map).ok
StartCell(o) == pos_to_node(o.start, map).node
TargetCell(o) == pos_to_node(o.target, map).node

Occupied(c) == array[c].is_obstacle

Manhattan(a, b) == Abs(a[1] - b[1]) + Abs(a[2] - b[2])
Adjacent4(a, b) == Manhattan(a, b) = 1

\* the unoccupied cells joined to visited[1] by 4-adjacent unoccupied cells,
\* listed as a flood fill visits them
RECURSIVE Flood(_, _)
Flood(visited, k) ==
  IF k > Len(visited) THEN visited
  ELSE LET c == visited[k]
           around == <<<<c[1], c[2] + 1>>, <<c[1], c[2] - 1>>,
                       <<c[1] - 1, c[2]>>, <<c[1] + 1, c[2]>>>>
           fresh(n) == /\ n \in Cells(map)
                       /\ ~Occupied(n)
                       /\ \A j \in 1 .. Len(visited) : visited[j] # n
       IN  Flood(visited \o SelectSeq(around, fresh), k + 1)

Connected(a, b) ==
  /\ ~Occupied(a) /\ ~Occupied(b)
  /\ LET region == Flood(<<a>>, 1) IN \E j \in 1 .. Len(region) : region[j] = b

\* one step of a_star_search
search_step(o, m, arr) ==
  CASE o.pc = "loop" -> search_loop(o, m, arr)
    [] o.pc = "expand" -> search_expand(o, m, arr)
    [] o.pc = "recon" -> search_recon(o, m, arr)
    [] OTHER -> [o |-> o, arr |-> arr]

RECURSIVE search_run(_, _, _, _)
search_run(o, m, arr, fuel) ==
  IF o.pc = "done" \/ fuel = 0 THEN o
  ELSE LET r == search_step(o, m, arr) IN search_run(r.o, m, r.arr, fuel - 1)

\* what a_star_search hands back when it runs alone on the Map as constructed
Alone(m, start, target) ==
  LET b == search_begin(new_astar(start, target), m, new_array(m))
  IN  returned(search_run(b.o, m, b.arr, 3 * Cardinality(Cells(m)) + 3))

\* ------------------------------------------------ claims

\* C1: every cell on a path returned by a_star_search is unoccupied.
C1_ObstacleAvoidance ==
  \A i \in Objects :
    astar[i].result = "found" =>
      \A k \in 1 .. Len(astar[i].path) : ~Occupied(astar[i].path[k])

\* C2: when the start cell and the target cell are unoccupied and joined by
\* a route of 4-adjacent unoccupied cells, a_star_search ends with a path.
C2_Completeness ==
  \A i \in Objects :
    (/\ astar[i].pc = "done"
     /\ Mapped(astar[i])
     /\ Connected(StartCell(astar[i]), TargetCell(astar[i])))
      => astar[i].result = "found"

C4_Optimality ==
  \A i \in Objects :
    (astar[i].result = "found" /\ \A c \in Cells(map) : ~Occupied(c)) =>
      Len(astar[i].path) - 1 = Manhattan(StartCell(astar[i]), TargetCell(astar[i]))

\* C5: a returned path starts at the start cell, ends at the target cell and
\* joins 4-adjacent cells.
C5_PathShape ==
  \A i \in Objects :
    astar[i].result = "found" =>
      LET path == astar[i].path
      IN  /\ path[1] = StartCell(astar[i])
          /\ path[Len(path)] = TargetCell(astar[i])
          /\ \A k \in 1 .. Len(path) - 1 : Adjacent4(path[k], path[k + 1])

\* C6: when the start or the target position maps to an occupied cell the
\* search is refused: no node is popped or checked and no path or
\* not-found result is handed back.
C6_EndpointRejection ==
  \A i \in Objects :
    (Mapped(astar[i]) /\ (Occupied(StartCell(astar[i])) \/ Occupied(TargetCell(astar[i]))))
      => (astar[i].nodes_checked = <<>> /\ astar[i].result \notin {"found", "exhausted"})

\* C7: a repeated call of a_star_search hands back what the first call on
\* the Map as constructed handed back.
C7_RepeatedSearch ==
  \A i \in Objects :
    (astar[i].pc = "done" /\ astar[i].calls >= 2) => returned(astar[i]) = astar[i].first

\* C8: a search whose steps interleave with those of another search over the
\* same Map hands back what it hands back when it runs alone.
C8_Isolation ==
  \A i \in Objects :
    astar[i].pc = "done" =>
      returned(astar[i]) = Alone(map, astar[i].start, astar[i].target)

\* C9: mapping the centre of cell c back to a cell yields c.
C9_RoundTrip ==
  probe.op = "round_trip" => (probe.ok /\ probe.node = probe.pos)

\* the index floor((position + origin) / footprint) of a position
SpecIndex(pos) ==
  <<(pos[1] + map.origin[1]) \div map.drone_dim,
    (pos[2] + map.origin[2]) \div map.drone_dim>>

\* C10: a position whose index lies outside the grid is an error, never a cell.
C10_OutOfBounds ==
  (probe.op = "pos_to_node" /\ SpecIndex(probe.pos) \notin Cells(map)) => ~probe.ok

\* ------------------------------------------------ claims on the Map
\* the index range of the specification: each bound is
\* floor((bound + origin) / footprint)
FloorRange(m, o) ==
  [top    |-> (o.top + m.origin[2]) \div m.drone_dim,
   bottom |-> (o.bottom + m.origin[2]) \div m.drone_dim,
   left   |-> (o.left + m.origin[1]) \div m.drone_dim,
   right  |-> (o.right + m.origin[1]) \div m.drone_dim]

InRange(c, r) ==
  /\ r.left <= c[1] /\ c[1] <= r.right
  /\ r.bottom <= c[2] /\ c[2] <= r.top

\* the whole of a range lies inside [0, width) x [0, height)
InGrid(m, r) ==
  /\ 0 <= r.left /\ r.right < array_x(m)
  /\ 0 <= r.bottom /\ r.top < array_y(m)

\* the obstacles given to the constructor and to create_obstacles so far
Marked ==
  IF probe.op = "create_obstacles" THEN Append(map.obstacles, probe.obstacle)
  ELSE map.obstacles

Covered(c) ==
  \E k \in 1 .. Len(Marked) : InRange(c, FloorRange(map, Marked[k]))

\* C11: an obstacle whose index range lies fully or partially outside the
\* grid makes create_obstacles complete without error and mark exactly the
\* cells of its range that lie inside the grid, and no other cell.
C11_ObstacleClipping ==
  (probe.op = "create_obstacles" /\ ~InGrid(map, FloorRange(map, probe.obstacle)))
    => /\ probe.ok
       /\ \A c \in Cells(map) : Occupied(c) <=> Covered(c)

\* C12: after construction and create_obstacles with in-bounds obstacles a
\* cell is occupied if and only if it lies in the inclusive index range
\* [left..right] x [bottom..top] of at least one obstacle, each bound being
\* floor((bound + origin) / footprint); every other cell stays unoccupied.
C12_Rasterization ==
  (/\ probe.op \in {"Map", "create_obstacles"}
   /\ \A k \in 1 .. Len(Marked) : InGrid(map, FloorRange(map, Marked[k])))
    => /\ probe.ok
       /\ \A c \in Cells(map) : Occupied(c) <=> Covered(c)

\* two obstacles with bounds off the cell borders, each the only one to
\* cover some cell, and a cell that neither covers
C12_Witness ==
  /\ probe.op = "create_obstacles" /\ Len(map.obstacles) = 1
  /\ InGrid(map, FloorRange(map, probe.obstacle))
  /\ (probe.obstacle.right + map.origin[1]) % map.drone_dim # 0
  /\ (probe.obstacle.top + map.origin[2]) % map.drone_dim # 0
  /\ \E c \in Cells(map) :
       /\ InRange(c, FloorRange(map, probe.obstacle))
       /\ ~InRange(c, FloorRange(map, map.obstacles[1])) /\ Occupied(c)
  /\ \E c \in Cells(map) :
       /\ ~InRange(c, FloorRange(map, probe.obstacle))
       /\ InRange(c, FloorRange(map, map.obstacles[1])) /\ Occupied(c)
  /\ \E c \in Cells(map) : ~Occupied(c)

\* the cells up, down, left and right of c that are inside the grid and
\* unoccupied, in this order
NeighborsOf(c) ==
  SelectSeq(<< <<c[1], c[2] + 1>>, <<c[1], c[2] - 1>>, <<c[1] - 1, c[2]>>, <<c[1] + 1, c[2]>> >>,
            LAMBDA n : n \in Cells(map) /\ ~Occupied(n))

RECURSIVE FloodSteps(_, _)
FloodSteps(visited, k) ==
  IF k > Len(visited) THEN visited
  ELSE LET c == visited[k][1]
           around == <<<<c[1], c[2] + 1>>, <<c[1], c[2] - 1>>,
                       <<c[1] - 1, c[2]>>, <<c[1] + 1, c[2]>>>>
           fresh == SelectSeq(around, LAMBDA n :
                      /\ n \in Cells(map)
                      /\ ~Occupied(n)
                      /\ \A j \in 1 .. Len(visited) : visited[j][1] # n)
       IN  FloodSteps(visited \o [j \in 1 .. Len(fresh) |-> <<fresh[j], visited[k][2] + 1>>],
                      k + 1)

\* the least number of steps of a 4-connected unoccupied route from a to b
Steps(a, b) ==
  LET region == FloodSteps(<< <<a, 0>> >>, 1)
  IN  region[CHOOSE j \in 1 .. Len(region) : region[j][1] = b][2]

\* C14: the heuristic that an expansion assigns to an unoccupied cell never
\* exceeds the least remaining cost of a 4-connected unoccupied route from
\* the cell to the target cell, a step costing one footprint.
C14_Admissibility ==
  [][\A i \in Objects :
       (astar[i].pc = "expand" /\ astar'[i].pc = "loop") =>
         \A c \in Cells(map) :
           (/\ in_list(c, get_neighbors(map, array, astar[i].node_to_check))
            /\ Connected(c, TargetCell(astar[i])))
             => array'[c].heuristic
                  <= Steps(c, TargetCell(astar[i])) * map.drone_dim * Scale]_vars

Searching(o) == o.pc \in {"loop", "expand", "recon"}

NoDuplicates(nodes) ==
  \A j, k \in 1 .. Len(nodes) : nodes[j] = nodes[k] => j = k

\* C15: in every state of a search no cell is in both nodes_found and
\* nodes_checked, and no cell appears more than once in either list.
C15_OpenClosedDisjoint ==
  \A i \in Objects :
    Searching(astar[i]) =>
      /\ \A k \in 1 .. Len(astar[i].nodes_found) :
           ~in_list(astar[i].nodes_found[k], astar[i].nodes_checked)
      /\ NoDuplicates(astar[i].nodes_found)
      /\ NoDuplicates(astar[i].nodes_checked)

C17_Relaxation ==
  \A i \in Objects :
    (Searching(astar[i]) /\ Mapped(astar[i])) =>
      /\ array[StartCell(astar[i])].cost = 0
      /\ array[StartCell(astar[i])].parent = NoNode
      /\ \A c \in Cells(map) :
           (/\ c # StartCell(astar[i])
            /\ in_list(c, astar[i].nodes_found) \/ in_list(c, astar[i].nodes_checked))
             => /\ array[c].parent # NoNode
                /\ Adjacent4(c, array[c].parent)
                /\ in_list(array[c].parent, astar[i].nodes_checked)
                /\ array[c].cost = array[array[c].parent].cost + 1

\* following parent from node n comes to a Node without a parent (or to
\* None) within fuel steps
RECURSIVE ChainEnds(_, _)
ChainEnds(n, fuel) ==
  IF n = NoNode THEN TRUE
  ELSE IF array[n].parent = NoNode THEN TRUE
  ELSE IF fuel = 0 THEN FALSE
  ELSE ChainEnds(array[n].parent, fuel - 1)

\* C18: the search loop and the path-reconstruction loop terminate: when a
\* search is in its reconstruction loop and nothing else runs on the Map,
\* the chain of parents it follows comes to an end.
C18_Termination ==
  \A i \in Objects :
    (/\ astar[i].pc = "recon"
     /\ \A j \in Objects \ {i} : astar[j].pc = "done")
      => ChainEnds(astar[i].node, Cardinality(Cells(map)))

\* C19: after construction and after any sequence of set_cost and
\* set_heuristic calls the stored _f_cost of a Node, and the value read
\* through f_cost, equal its cost plus its heuristic.
C19_FCost ==
  /\ probe.node._f_cost = probe.node._cost + probe.node._heuristic
  /\ probe.op = "f_cost" => probe.read = probe.node._cost + probe.node._heuristic

\* f_cost is read after both fields were set, the cost last
C19_Witness ==
  /\ probe.op = "set_cost"
  /\ probe.node._cost > 0 /\ probe.node._heuristic > 0
  /\ probe.read > 0 /\ probe.read # probe.node._f_cost

\* C20: no step of a_star_search changes the is_obstacle flag of a Node or
\* the dimensions, origin or drone_dim of the Map.
C20_OccupancyUnchanged ==
  [][/\ map' = map
     /\ DOMAIN array' = DOMAIN array
     /\ \A c \in Cells(map) : array'[c].is_obstacle = array[c].is_obstacle]_vars

\* a search that went around an obstacle has returned its path
C20_Witness ==
  \E i \in Objects :
    /\ astar[i].result = "found" /\ Len(astar[i].path) >= 4
    /\ \E c \in Cells(map) : Occupied(c)
    /\ \E c \in Cells(map) : ~Occupied(c) /\ array[c].parent # NoNode

====
